---- MODULE Spec2Model ----
(***************************************************************************)
(* State-machine model of src/script.js: the particle-enabled               *)
(* DynamicalSystemVisualizer (lines 645-1322) and the Particle class        *)
(* (lines 579-643).                                                         *)
(*                                                                          *)
(* Numbers.  The program computes in IEEE doubles.  World coordinates and   *)
(* field values are modelled in fixed point: the integer v stands for the   *)
(* real v / Scale, and every division rounds to the nearest multiple of     *)
(* 1 / Scale (FDiv).  Canvas coordinates are whole pixels.                  *)
(*                                                                          *)
(* Scheduling.  The browser runs one event handler or callback at a time,   *)
(* to completion.  Every action below is one whole handler (or one whole    *)
(* callback), including the redraw it ends with.                            *)
(***************************************************************************)
EXTENDS Integers, Sequences, FiniteSets, TLC

VARIABLES
    dxdt,               \* this.dxdt: compiled expression or Null
    dydt,               \* this.dydt
    parameters,         \* this.parameters
    xMin, xMax,         \* this.xMin, this.xMax (fixed point)
    yMin, yMax,         \* this.yMin, this.yMax (fixed point)
    particles,          \* this.particles: sequence of Particle objects
    colorIndex,         \* this.colorIndex
    gridDensity,        \* this.gridDensity
    simulationRunning,  \* this.simulationRunning
    pendingFrames,      \* requestAnimationFrame callbacks not yet run
    feedbackPending,    \* some setTimeout callback of showClickFeedback has not run yet
    canvas,             \* what the last draw() painted
    nextId,             \* source of Particle ids (Date.now() + Math.random())
    last                \* the handler that ran last, and how it ended

vars == << dxdt, dydt, parameters, xMin, xMax, yMin, yMax, particles,
           colorIndex, gridDensity, simulationRunning, pendingFrames, feedbackPending,
           canvas, nextId, last >>

---------------------------------------------------------------------------
(* Bounds of the model *)

\* fixed-point resolution: v stands for v / Scale
Scale == 1000
\* particles created in one run (one id each)
MaxSpawn == 2
\* longest trajectory integrated
MaxTraj == 3
\* steps integrated in the long run of one particle
MaxSteps == 1000

(* Program constants *)

\* canvas.width and canvas.height, read once by the constructor
canvasWidth == 800
canvasHeight == 600
\* Particle.update deactivates beyond +-10
ParticleBound == 10
\* this.particleColors holds eight colours
NumColors == 8
\* this.simulationSpeed = 0.05
simulationSpeed == Scale \div 20
\* drawNullcline: const resolution = 200
NullclineResolution == 200
\* drawNullcline: y += (this.yMax - this.yMin) / 100
NullclineSteps == 100
\* drawNullcline: Math.abs(value) < 0.05
NullclineThreshold == Scale \div 20

---------------------------------------------------------------------------
(* Arithmetic *)

\* a / b for b > 0, rounded to the nearest integer (halves upward)
FDiv(a, b) == (2 * a + b) \div (2 * b)

---------------------------------------------------------------------------
(* Inputs the user can type / click.  Small sets standing for the text      *)
(* fields and the mouse.                                                    *)

\* texts of the dx-dt and dy-dt fields typed before a click on update-system;
\* "x +" does not parse
DxTexts == {"c", "x +"}
DyTexts == {"c", "x +"}

\* texts of the parameters field
ParameterTexts == {"", "{\"c\": 150}", "null", "{bad"}

\* values of the four view-range fields, in world units
ViewInputs == { << -5, 5, -5, 5 >>, << -20, 20, -20, 20 >> }

\* mouse positions on the canvas, in pixels
ClickXs == {600, 620}
ClickYs == {300}

---------------------------------------------------------------------------
(* math.js and JSON, as far as the program uses them *)

Null == [type |-> "null"]

\* the nodes math.parse builds
SymbolNode(name) == [type |-> "SymbolNode", name |-> name]
ConstantNode(value) == [type |-> "ConstantNode", value |-> value]
OperatorNode(fn, args) == [type |-> "OperatorNode", fn |-> fn, args |-> args]

\* math.parse(text).compile(): a compiled expression, or a thrown error
Compile(text) ==
    CASE text = "x"   -> [ok |-> TRUE, expr |-> SymbolNode("x")]
      [] text = "y"   -> [ok |-> TRUE, expr |-> SymbolNode("y")]
      [] text = "c"   -> [ok |-> TRUE, expr |-> SymbolNode("c")]
      [] text = "-x"  -> [ok |-> TRUE, expr |-> OperatorNode("unaryMinus", << SymbolNode("x") >>)]
      [] text = "1/x" -> [ok |-> TRUE,
                          expr |-> OperatorNode("divide", << ConstantNode(1), SymbolNode("x") >>)]
      [] text = "x/x" -> [ok |-> TRUE,
                          expr |-> OperatorNode("divide", << SymbolNode("x"), SymbolNode("x") >>)]
      [] text = "y - x" ->
            [ok |-> TRUE,
             expr |-> OperatorNode("subtract", << SymbolNode("y"), SymbolNode("x") >>)]
      [] text = "mu * (1 - x^2) * y - x" ->
            [ok |-> TRUE,
             expr |-> OperatorNode("subtract", <<
                        OperatorNode("multiply", <<
                            OperatorNode("multiply", <<
                                SymbolNode("mu"),
                                OperatorNode("subtract", <<
                                    ConstantNode(1),
                                    OperatorNode("pow", << SymbolNode("x"), ConstantNode(2) >>) >>) >>),
                            SymbolNode("y") >>),
                        SymbolNode("x") >>)]
      [] OTHER        -> [ok |-> FALSE, expr |-> Null]

\* parametersInput.trim() ? JSON.parse(parametersInput) : {}
\* an object is the set of its <<key, value>> entries; numeric reports
\* whether every value is a number
ParseParameters(text) ==
    CASE text = ""              -> [ok |-> TRUE, value |-> [kind |-> "object", entries |-> {}]]
      [] text = "{\"c\": 150}"  -> [ok |-> TRUE, value |-> [kind |-> "object", entries |-> {<<"c", 150>>}]]
      [] text = "{\"mu\": 1}"   -> [ok |-> TRUE, value |-> [kind |-> "object", entries |-> {<<"mu", 1>>}]]
      [] text = "null"          -> [ok |-> TRUE, value |-> [kind |-> "null", entries |-> {}]]
      [] text = "[150]"         -> [ok |-> TRUE, value |-> [kind |-> "array", entries |-> {<<"0", 150>>}]]
      [] text = "150"           -> [ok |-> TRUE, value |-> [kind |-> "number", entries |-> {}]]
      [] OTHER                  -> [ok |-> FALSE, value |-> [kind |-> "null", entries |-> {}]]

\* { x: x, y: y, ...this.parameters }: the parameters override x and y
Scope(x, y, params) ==
    LET own == { e[1] : e \in params.entries }
    IN  [ defined |-> {"x", "y"} \cup own,
          value   |-> [ n \in {"x", "y"} \cup own |->
                          IF n \in own
                          THEN Scale * (CHOOSE e \in params.entries : e[1] = n)[2]
                          ELSE IF n = "x" THEN x ELSE y ] ]

\* A JavaScript number: is = "number" for a finite number, whose fixed-point
\* value is value; otherwise is names the value ("Infinity", "-Infinity",
\* "NaN") and value is 0 and stands for nothing.
Number(v) == [is |-> "number", value |-> v]
NonFinite(name) == [is |-> name, value |-> 0]

\* the sign of an infinity, or of a finite number taken as +0 when zero
SignOf(a) ==
    IF a.is = "Infinity" THEN 1
    ELSE IF a.is = "-Infinity" THEN -1
    ELSE IF a.value < 0 THEN -1 ELSE 1

Signed(sign) == IF sign > 0 THEN NonFinite("Infinity") ELSE NonFinite("-Infinity")

\* IEEE arithmetic of math.js on numbers
Negate(a) ==
    IF a.is = "number" THEN Number(-a.value)
    ELSE IF a.is = "NaN" THEN a
    ELSE Signed(-SignOf(a))

Add(a, b) ==
    IF a.is = "NaN" \/ b.is = "NaN" THEN NonFinite("NaN")
    ELSE IF a.is = "number" /\ b.is = "number" THEN Number(a.value + b.value)
    ELSE IF a.is = "number" THEN b
    ELSE IF b.is = "number" THEN a
    ELSE IF a.is = b.is THEN a ELSE NonFinite("NaN")

Multiply(a, b) ==
    IF a.is = "NaN" \/ b.is = "NaN" THEN NonFinite("NaN")
    ELSE IF a.is = "number" /\ b.is = "number"
    THEN Number(FDiv(a.value * b.value, Scale))
    ELSE IF (a.is = "number" /\ a.value = 0) \/ (b.is = "number" /\ b.value = 0)
    THEN NonFinite("NaN")
    ELSE Signed(SignOf(a) * SignOf(b))

Divide(a, b) ==
    IF a.is = "NaN" \/ b.is = "NaN" THEN NonFinite("NaN")
    ELSE IF a.is = "number" /\ b.is = "number"
    THEN IF b.value > 0 THEN Number(FDiv(a.value * Scale, b.value))
         ELSE IF b.value < 0 THEN Number(FDiv(-(a.value * Scale), -b.value))
         ELSE IF a.value = 0 THEN NonFinite("NaN")
         ELSE Signed(SignOf(a))
    ELSE IF a.is = "number" THEN Number(0)
    ELSE IF b.is = "number" THEN Signed(SignOf(a) * SignOf(b))
    ELSE NonFinite("NaN")

\* a ^ n for a whole exponent n >= 0
RECURSIVE Power(_, _)
Power(a, n) == IF n = 0 THEN Number(Scale) ELSE Multiply(a, Power(a, n - 1))

\* the function of an operator node, applied to evaluated arguments
Apply(fn, args) ==
    CASE fn = "unaryMinus" -> Negate(args[1])
      [] fn = "subtract"   -> Add(args[1], Negate(args[2]))
      [] fn = "multiply"   -> Multiply(args[1], args[2])
      [] fn = "divide"     -> Divide(args[1], args[2])

\* compiled.evaluate(scope): a number, or a thrown error (undefined symbol)
RECURSIVE Evaluate(_, _)
Evaluate(expr, scope) ==
    CASE expr.type = "SymbolNode" ->
            IF expr.name \in scope.defined
            THEN [ok |-> TRUE, value |-> scope.value[expr.name], is |-> "number"]
            ELSE [ok |-> FALSE, value |-> 0, is |-> "number"]
      [] expr.type = "ConstantNode" ->
            [ok |-> TRUE, value |-> expr.value * Scale, is |-> "number"]
      [] expr.type = "OperatorNode" /\ expr.fn = "pow" ->
            LET base == Evaluate(expr.args[1], scope)
                r    == Power(base, expr.args[2].value)
            IN  IF base.ok
                THEN [ok |-> TRUE, value |-> r.value, is |-> r.is]
                ELSE [ok |-> FALSE, value |-> 0, is |-> "number"]
      [] expr.type = "OperatorNode" /\ expr.fn # "pow" ->
            LET args == [ i \in 1..Len(expr.args) |-> Evaluate(expr.args[i], scope) ]
                r    == Apply(expr.fn, args)
            IN  IF \A i \in 1..Len(args) : args[i].ok
                THEN [ok |-> TRUE, value |-> r.value, is |-> r.is]
                ELSE [ok |-> FALSE, value |-> 0, is |-> "number"]
      [] OTHER -> [ok |-> FALSE, value |-> 0, is |-> "number"]

\* the System: the three fields evaluateSystem reads
System(fx, fy, params) == [dxdt |-> fx, dydt |-> fy, parameters |-> params]

\* the vector evaluateSystem falls back on
ZeroVector == [dx |-> 0, dy |-> 0, dxIs |-> "number", dyIs |-> "number"]

\* { dx, dy } of two evaluations that did not throw; dxIs and dyIs tell
\* what kind of JavaScript number each component is
Vector(dx, dy) ==
    [dx |-> dx.value, dy |-> dy.value, dxIs |-> dx.is, dyIs |-> dy.is]

\* faulty variant: each component falls back on its own
evaluateSystem_PerComponent(sys, x, y) ==
    IF sys.dxdt = Null \/ sys.dydt = Null
    THEN ZeroVector
    ELSE Vector(Evaluate(sys.dxdt, Scope(x, y, sys.parameters)),
                Evaluate(sys.dydt, Scope(x, y, sys.parameters)))

evaluateSystem(sys, x, y) ==
    IF sys.dxdt = Null \/ sys.dydt = Null
    THEN ZeroVector
    ELSE LET scope == Scope(x, y, sys.parameters)
             dx == Evaluate(sys.dxdt, scope)
             dy == Evaluate(sys.dydt, scope)
         IN  IF dx.ok /\ dy.ok
             THEN Vector(dx, dy)
             ELSE ZeroVector

---------------------------------------------------------------------------
(* Projection *)

canvasToWorldX(canvasX, vxMin, vxMax) ==
    vxMin + FDiv(canvasX * (vxMax - vxMin), canvasWidth)

canvasToWorldY(canvasY, vyMin, vyMax) ==
    vyMin + FDiv((canvasHeight - canvasY) * (vyMax - vyMin), canvasHeight)

---------------------------------------------------------------------------
(* class Particle *)

\* new Particle(x, y, color)
NewParticle(x, y, color, id) ==
    [ x |-> x, y |-> y, color |-> color,
      trajectory |-> << [x |-> x, y |-> y] >>,
      active |-> TRUE, id |-> id ]

\* faulty variant: the bound itself counts as outside
OutOfBounds_Inclusive(x, y) ==
    \/ x <= -(ParticleBound * Scale)
    \/ x >= ParticleBound * Scale
    \/ y <= -(ParticleBound * Scale)
    \/ y >= ParticleBound * Scale

\* faulty variant: outside only when both coordinates are outside
OutOfBounds_Both(x, y) ==
    /\ (x < -(ParticleBound * Scale) \/ x > ParticleBound * Scale)
    /\ (y < -(ParticleBound * Scale) \/ y > ParticleBound * Scale)

\* faulty variant: the four comparisons are reversed
OutOfBounds_Reversed(x, y) ==
    \/ x > -(ParticleBound * Scale)
    \/ x < ParticleBound * Scale
    \/ y > -(ParticleBound * Scale)
    \/ y < ParticleBound * Scale

\* the bound check at the end of Particle.update
OutOfBounds(x, y) ==
    \/ x < -(ParticleBound * Scale)
    \/ x > ParticleBound * Scale
    \/ y < -(ParticleBound * Scale)
    \/ y > ParticleBound * Scale

\* (x + k.dx * dt / den, y + k.dy * dt / den): the point of the next
\* evaluation, and with den = 1 the new position
Advance(x, y, k, dt, den) ==
    [ x |-> x + FDiv(k.dx * dt, den * Scale),
      y |-> y + FDiv(k.dy * dt, den * Scale) ]

\* evaluator(pt.x, pt.y)
EvaluateAt(sys, pt) == evaluateSystem(sys, pt.x, pt.y)

\* ((k1 + 2 * k2 + 2 * k3 + k4) / 6, per component
Weighted(k1, k2, k3, k4) ==
    [ dx |-> FDiv(k1.dx + 2 * k2.dx + 2 * k3.dx + k4.dx, 6),
      dy |-> FDiv(k1.dy + 2 * k2.dy + 2 * k3.dy + k4.dy, 6) ]

\* faulty variant: a forward Euler step, the weighted mean left out
RK4_Euler(x, y, dt, sys) ==
    Advance(x, y, evaluateSystem(sys, x, y), dt, 1)

\* the points Particle.update passes to the evaluator, in the order of its
\* four calls
RK4Calls(x, y, dt, sys) ==
    LET k1 == evaluateSystem(sys, x, y)
        k2 == EvaluateAt(sys, Advance(x, y, k1, dt, 2))
        k3 == EvaluateAt(sys, Advance(x, y, k2, dt, 2))
    IN  << [x |-> x, y |-> y],
           Advance(x, y, k1, dt, 2),
           Advance(x, y, k2, dt, 2),
           Advance(x, y, k3, dt, 1) >>

\* the Runge-Kutta step of Particle.update: the new position
RK4(x, y, dt, sys) ==
    LET k1 == evaluateSystem(sys, x, y)
        k2 == EvaluateAt(sys, Advance(x, y, k1, dt, 2))
        k3 == EvaluateAt(sys, Advance(x, y, k2, dt, 2))
        k4 == EvaluateAt(sys, Advance(x, y, k3, dt, 1))
    IN  Advance(x, y, Weighted(k1, k2, k3, k4), dt, 1)

\* this.x, this.y, the push on the trajectory and the bound check
MoveTo(p, q) ==
    [ p EXCEPT !.x = q.x,
               !.y = q.y,
               !.trajectory = Append(@, [x |-> q.x, y |-> q.y]),
               !.active = IF OutOfBounds(q.x, q.y) THEN FALSE ELSE @ ]

\* faulty variant: the flag follows the bound check both ways
MoveTo_SetsFlag(p, q) ==
    [ p EXCEPT !.x = q.x,
               !.y = q.y,
               !.trajectory = Append(@, [x |-> q.x, y |-> q.y]),
               !.active = ~OutOfBounds(q.x, q.y) ]

\* faulty variant: the trajectory keeps only the newest point
MoveTo_Overwrites(p, q) ==
    [ p EXCEPT !.x = q.x,
               !.y = q.y,
               !.trajectory = << [x |-> q.x, y |-> q.y] >>,
               !.active = IF OutOfBounds(q.x, q.y) THEN FALSE ELSE @ ]

\* faulty variant: the push comes before the assignment of this.x, this.y
MoveTo_PushesOld(p, q) ==
    [ p EXCEPT !.x = q.x,
               !.y = q.y,
               !.trajectory = Append(@, [x |-> p.x, y |-> p.y]),
               !.active = IF OutOfBounds(q.x, q.y) THEN FALSE ELSE @ ]

\* faulty variant: the trajectory lags one step behind the position
ParticleUpdate_PushesOld(p, dt, sys) ==
    IF ~p.active
    THEN p
    ELSE MoveTo_PushesOld(p, RK4(p.x, p.y, dt, sys))

\* faulty variant: the bound check comes before the push, and returns
MoveTo_ChecksFirst(p, q) ==
    IF OutOfBounds(q.x, q.y)
    THEN [ p EXCEPT !.x = q.x, !.y = q.y, !.active = FALSE ]
    ELSE [ p EXCEPT !.x = q.x,
                    !.y = q.y,
                    !.trajectory = Append(@, [x |-> q.x, y |-> q.y]) ]

\* faulty variant: the exit position is not recorded
ParticleUpdate_ChecksFirst(p, dt, sys) ==
    IF ~p.active
    THEN p
    ELSE MoveTo_ChecksFirst(p, RK4(p.x, p.y, dt, sys))

\* faulty variant: no early return for an inactive particle
ParticleUpdate_NoGuard(p, dt, sys) ==
    MoveTo_SetsFlag(p, RK4(p.x, p.y, dt, sys))

\* faulty variant: the trajectory is overwritten instead of extended
ParticleUpdate_Overwrites(p, dt, sys) ==
    IF ~p.active
    THEN p
    ELSE MoveTo_Overwrites(p, RK4(p.x, p.y, dt, sys))

\* particle.update(dt, evaluator), the evaluator being evaluateSystem of sys
ParticleUpdate(p, dt, sys) ==
    IF ~p.active
    THEN p
    ELSE MoveTo(p, RK4(p.x, p.y, dt, sys))

\* particle.draw(ctx, ...): nothing for a single point, else the stroked
\* path, and the position dot when the particle is active
ParticleDraw(p) ==
    IF Len(p.trajectory) < 2
    THEN << >>
    ELSE << [path |-> p.trajectory, color |-> p.color, dot |-> p.active] >>

---------------------------------------------------------------------------
(* class DynamicalSystemVisualizer *)

NoSystem(sys) == sys.dxdt = Null \/ sys.dydt = Null

\* Object.keys(this.parameters) in updateParameterDisplay throws a TypeError
\* when JSON.parse returned null
ParameterDisplayThrows(params) == params.kind = "null"

\* faulty variant: the particles are cleared before anything is parsed
updateSystem_ClearsFirst(sys, ps, cidx, dxText, dyText, pText) ==
    LET pr == ParseParameters(pText)
        fx == Compile(dxText)
        fy == Compile(dyText)
    IN  IF ~pr.ok
        THEN [ sys |-> sys, particles |-> << >>, colorIndex |-> 0,
               res |-> "parameters" ]
        ELSE IF ~fx.ok
        THEN [ sys |-> System(sys.dxdt, sys.dydt, pr.value),
               particles |-> << >>, colorIndex |-> 0, res |-> "dxdt" ]
        ELSE IF ~fy.ok
        THEN [ sys |-> System(fx.expr, sys.dydt, pr.value),
               particles |-> << >>, colorIndex |-> 0, res |-> "dydt" ]
        ELSE IF ParameterDisplayThrows(pr.value)
        THEN [ sys |-> System(fx.expr, fy.expr, pr.value),
               particles |-> << >>, colorIndex |-> 0, res |-> "display" ]
        ELSE [ sys |-> System(fx.expr, fy.expr, pr.value),
               particles |-> << >>, colorIndex |-> 0, res |-> "ok" ]

\* updateSystem(): the fields it leaves behind and where it stopped.
\* The assignments happen one by one inside the try block, so an exception
\* keeps the assignments made before it.
updateSystem(sys, ps, cidx, dxText, dyText, pText) ==
    LET pr == ParseParameters(pText)
        fx == Compile(dxText)
        fy == Compile(dyText)
    IN  IF ~pr.ok
        THEN [ sys |-> sys, particles |-> ps, colorIndex |-> cidx,
               res |-> "parameters" ]
        ELSE IF ~fx.ok
        THEN [ sys |-> System(sys.dxdt, sys.dydt, pr.value),
               particles |-> ps, colorIndex |-> cidx, res |-> "dxdt" ]
        ELSE IF ~fy.ok
        THEN [ sys |-> System(fx.expr, sys.dydt, pr.value),
               particles |-> ps, colorIndex |-> cidx, res |-> "dydt" ]
        ELSE IF ParameterDisplayThrows(pr.value)
        THEN [ sys |-> System(fx.expr, fy.expr, pr.value),
               particles |-> ps, colorIndex |-> cidx, res |-> "display" ]
        ELSE \* this.clearParticles()
             [ sys |-> System(fx.expr, fy.expr, pr.value),
               particles |-> << >>, colorIndex |-> 0, res |-> "ok" ]

IsActive(p) == p.active

\* the end of simulateStep: with the particles left, request the next frame
\* or clear the flag
Reschedule(kept) ==
    IF Len(kept) > 0 /\ \E i \in 1..Len(kept) : kept[i].active
    THEN [ particles |-> kept, simulationRunning |-> TRUE, request |-> 1 ]
    ELSE [ particles |-> kept, simulationRunning |-> FALSE, request |-> 0 ]

\* faulty variant: the next frame is requested whatever is left
Reschedule_Always(kept) ==
    [ particles |-> kept, simulationRunning |-> TRUE, request |-> 1 ]

\* this.particles.forEach(particle => particle.update(...))
UpdateAll(ps, sys) ==
    [ i \in 1..Len(ps) |-> ParticleUpdate(ps[i], simulationSpeed, sys) ]

\* faulty variant: the loop over the particles starts at the second one
UpdateAll_SkipsFirst(ps, sys) ==
    [ i \in 1..Len(ps) |->
        IF i = 1 THEN ps[i] ELSE ParticleUpdate(ps[i], simulationSpeed, sys) ]

\* faulty variant of simulateStep, built on UpdateAll_SkipsFirst
simulateStep_SkipsFirst(running, ps, sys) ==
    IF ~running
    THEN [ particles |-> ps, simulationRunning |-> running, request |-> 0 ]
    ELSE Reschedule(SelectSeq(UpdateAll_SkipsFirst(ps, sys), IsActive))

\* faulty variant of simulateStep, built on Reschedule_Always
simulateStep_AlwaysRequests(running, ps, sys) ==
    IF ~running
    THEN [ particles |-> ps, simulationRunning |-> running, request |-> 0 ]
    ELSE Reschedule_Always(SelectSeq(UpdateAll(ps, sys), IsActive))

\* faulty variant: the inactive particles are not filtered out
simulateStep_NoSweep(running, ps, sys) ==
    IF ~running
    THEN [ particles |-> ps, simulationRunning |-> running, request |-> 0 ]
    ELSE Reschedule(UpdateAll(ps, sys))

\* simulateStep(): the particles it leaves, the flag, and whether it called
\* requestAnimationFrame
simulateStep(running, ps, sys) ==
    IF ~running
    THEN [ particles |-> ps, simulationRunning |-> running, request |-> 0 ]
    ELSE Reschedule(SelectSeq(UpdateAll(ps, sys), IsActive))

\* faulty variant: no early return when the loop is running already
startSimulation_NoGuard(running, ps, sys) ==
    simulateStep(TRUE, ps, sys)

\* faulty variant: the flag is set, the first step is not run
startSimulation_FlagOnly(running, ps, sys) ==
    [ particles |-> ps, simulationRunning |-> TRUE, request |-> 0 ]

\* startSimulation()
startSimulation(running, ps, sys) ==
    IF running
    THEN [ particles |-> ps, simulationRunning |-> running, request |-> 0 ]
    ELSE simulateStep(TRUE, ps, sys)

\* faulty variant: the trajectories are emptied
clearTrajectories_Empties(ps) ==
    [ i \in 1..Len(ps) |-> [ ps[i] EXCEPT !.trajectory = << >> ] ]

\* clearTrajectories(), without its redraw
clearTrajectories(ps) ==
    [ i \in 1..Len(ps) |->
        [ ps[i] EXCEPT !.trajectory = << [x |-> ps[i].x, y |-> ps[i].y] >> ] ]

PaintsSomething(p) == ParticleDraw(p) # << >>

\* this.particles.forEach(particle => particle.draw(...)): what the
\* particles paint, in order
DrawParticles(ps) ==
    LET painting == SelectSeq(ps, PaintsSomething)
    IN  [ i \in 1..Len(painting) |-> ParticleDraw(painting[i])[1] ]

\* draw(): the message when no system is loaded, else the particle paths
\* (grid, arrows and nullclines are functions of the system and the view)
draw(sys, ps) ==
    IF NoSystem(sys)
    THEN [ message |-> TRUE, paths |-> << >> ]
    ELSE [ message |-> FALSE, paths |-> DrawParticles(ps) ]

\* draw() reaches this.drawFlowField(), which samples the evaluator over
\* the whole grid anew (and this.drawNullclines(), which does so when the
\* nullclines are shown): the else branch of its test
FieldPass(sys) == ~NoSystem(sys)

\* magnitude > 0 for magnitude = Math.sqrt(dx * dx + dy * dy): false for a
\* NaN magnitude, true for an infinite one
MagnitudePositive(v) ==
    IF v.dxIs = "NaN" \/ v.dyIs = "NaN" THEN FALSE
    ELSE IF v.dxIs # "number" \/ v.dyIs # "number" THEN TRUE
    ELSE v.dx # 0 \/ v.dy # 0

\* the sample of one pass of the two loops of drawFlowField: the grid point
\* (i, j) and what evaluateSystem returns there
FieldSample(sys, i, j, vxMin, vyMin, stepX, stepY) ==
    [ i |-> i, j |-> j,
      x |-> vxMin + i * stepX,
      y |-> vyMin + j * stepY,
      v |-> evaluateSystem(sys, vxMin + i * stepX, vyMin + j * stepY) ]

HasArrow(sample) == MagnitudePositive(sample.v)

\* the passes of the loops "for (i = 0; i <= top; i++) for (j = 0; j <= top; j++)",
\* in order
GridSamples(sys, top, vxMin, vyMin, stepX, stepY) ==
    [ k \in 1..((top + 1) * (top + 1)) |->
        FieldSample(sys, (k - 1) \div (top + 1), (k - 1) % (top + 1),
                    vxMin, vyMin, stepX, stepY) ]

\* what a pass over the grid leaves: the evaluations made and the arrows
\* drawn (an arrow is the sample it starts from; its length is fixed and
\* its direction is that of the vector)
FieldOf(samples) ==
    [ evaluated |-> samples, arrows |-> SelectSeq(samples, HasArrow) ]

\* faulty variant: the loops stop before the last index
drawFlowField_Exclusive(sys, density, vxMin, vxMax, vyMin, vyMax) ==
    FieldOf(GridSamples(sys, density - 1, vxMin, vyMin,
                        FDiv(vxMax - vxMin, density), FDiv(vyMax - vyMin, density)))

\* drawFlowField()
drawFlowField(sys, density, vxMin, vxMax, vyMin, vyMax) ==
    FieldOf(GridSamples(sys, density, vxMin, vyMin,
                        FDiv(vxMax - vxMin, density), FDiv(vyMax - vyMin, density)))

\* Math.abs(value) < 0.05 for the component drawNullcline looks at
NearZero(v, isDxDt) ==
    IF isDxDt
    THEN v.dxIs = "number" /\ v.dx < NullclineThreshold /\ -v.dx < NullclineThreshold
    ELSE v.dyIs = "number" /\ v.dy < NullclineThreshold /\ -v.dy < NullclineThreshold

\* the passes of "for (y = yMin; y <= yMax; y += step)" when nothing breaks
\* the loop, for a step above 0
Passes(vyMin, vyMax, stepY) ==
    IF vyMax < vyMin THEN 0 ELSE ((vyMax - vyMin) \div stepY) + 1

\* the test of pass k of the inner loop of drawNullcline at the column x
HitAt(sys, isDxDt, x, vyMin, stepY, k) ==
    NearZero(evaluateSystem(sys, x, vyMin + k * stepY), isDxDt)

\* the pass the inner loop breaks on: the first whose test holds
FirstHit(sys, isDxDt, x, vyMin, stepY, passes) ==
    CHOOSE k \in 0..(passes - 1) :
        /\ HitAt(sys, isDxDt, x, vyMin, stepY, k)
        /\ \A j \in 0..(k - 1) : ~HitAt(sys, isDxDt, x, vyMin, stepY, j)

\* the pass a loop without break acts on last: the last whose test holds
LastHit(sys, isDxDt, x, vyMin, stepY, passes) ==
    CHOOSE k \in 0..(passes - 1) :
        /\ HitAt(sys, isDxDt, x, vyMin, stepY, k)
        /\ \A j \in (k + 1)..(passes - 1) : ~HitAt(sys, isDxDt, x, vyMin, stepY, j)

\* the inner loop broke on pass k
BrokeOn(vyMin, stepY, k) ==
    [ hit |-> TRUE, y |-> vyMin + k * stepY, evaluated |-> k + 1 ]

\* the inner loop ran through pass k, its last, with a hit on the way
RanThrough(vyMin, stepY, k, passes) ==
    [ hit |-> TRUE, y |-> vyMin + k * stepY, evaluated |-> passes ]

\* faulty variant: the inner loop has no break, the last hit of the column
\* is what the scan ends on
ScanColumn_NoBreak(sys, isDxDt, x, vyMin, stepY, passes) ==
    IF \E k \in 0..(passes - 1) : HitAt(sys, isDxDt, x, vyMin, stepY, k)
    THEN RanThrough(vyMin, stepY, LastHit(sys, isDxDt, x, vyMin, stepY, passes), passes)
    ELSE [ hit |-> FALSE, y |-> vyMin + passes * stepY, evaluated |-> passes ]

\* the inner loop of drawNullcline at the column x: whether it broke on a
\* hit, the y of the hit, and the evaluations made
ScanColumn(sys, isDxDt, x, vyMin, stepY, passes) ==
    IF \E k \in 0..(passes - 1) : HitAt(sys, isDxDt, x, vyMin, stepY, k)
    THEN BrokeOn(vyMin, stepY, FirstHit(sys, isDxDt, x, vyMin, stepY, passes))
    ELSE [ hit |-> FALSE, y |-> vyMin + passes * stepY, evaluated |-> passes ]

\* one pass of the outer loop of drawNullcline
Column(i, x, scan) ==
    [ i |-> i, x |-> x, hit |-> scan.hit, y |-> scan.y, evaluated |-> scan.evaluated ]

ColumnHit(column) == column.hit

\* the calls on the path: moveTo for the first hit, lineTo for every later one
PathOf(hits) ==
    [ k \in 1..Len(hits) |->
        [ call |-> IF k = 1 THEN "moveTo" ELSE "lineTo",
          i |-> hits[k].i, x |-> hits[k].x, y |-> hits[k].y ] ]

\* what drawNullcline leaves: its columns and the path it strokes
NullclineOf(columns) ==
    [ columns |-> columns, path |-> PathOf(SelectSeq(columns, ColumnHit)) ]

\* the columns of drawNullcline for the two steps it computes
Columns(sys, isDxDt, vxMin, vyMin, vyMax, stepX, stepY) ==
    [ k \in 1..(NullclineResolution + 1) |->
        Column(k - 1, vxMin + (k - 1) * stepX,
               ScanColumn(sys, isDxDt, vxMin + (k - 1) * stepX, vyMin, stepY,
                          Passes(vyMin, vyMax, stepY))) ]

\* drawNullcline(isDxDt)
drawNullcline(sys, isDxDt, vxMin, vxMax, vyMin, vyMax) ==
    NullclineOf(Columns(sys, isDxDt, vxMin, vyMin, vyMax,
                        FDiv(vxMax - vxMin, NullclineResolution),
                        FDiv(vyMax - vyMin, NullclineSteps)))

Sys == System(dxdt, dydt, parameters)

\* the model integrates no trajectory beyond MaxTraj points
CanStep(ps) == \A i \in 1..Len(ps) : Len(ps[i].trajectory) < MaxTraj

---------------------------------------------------------------------------
(* Initial state: after the constructor *)

Init ==
    /\ dxdt = Null
    /\ dydt = Null
    /\ parameters = [kind |-> "object", entries |-> {}]
    /\ xMin = -5 * Scale
    /\ xMax = 5 * Scale
    /\ yMin = -5 * Scale
    /\ yMax = 5 * Scale
    /\ particles = << >>
    /\ colorIndex = 0
    /\ gridDensity = 20
    /\ simulationRunning = FALSE
    /\ pendingFrames = 0
    /\ feedbackPending = FALSE
    /\ canvas = draw(System(Null, Null, [kind |-> "object", entries |-> {}]), << >>)
    /\ nextId = 0
    /\ last = [op |-> "constructor", res |-> "ok", n |-> 0, fieldPass |-> FALSE]

---------------------------------------------------------------------------
(* Event handlers *)

\* the class of the error thrown where updateSystem stopped: JSON.parse and
\* math.parse throw a SyntaxError, Object.keys(null) a TypeError
ErrorThrown(res) ==
    IF res \in {"parameters", "dxdt", "dydt"} THEN "SyntaxError" ELSE "TypeError"

\* the alert of the catch block of updateSystem
Alert(res) ==
    IF res = "ok" THEN "none"
    ELSE IF ErrorThrown(res) = "SyntaxError"
    THEN "Error parsing parameters JSON"
    ELSE "Error parsing equations"

\* click on update-system with the three fields holding one text each of
\* the given sets: updateSystem(); draw()
UpdateSystemWith(dxTexts, dyTexts, pTexts) ==
    \E dxText \in dxTexts, dyText \in dyTexts, pText \in pTexts :
        LET r == updateSystem(Sys, particles, colorIndex, dxText, dyText, pText)
        IN  /\ dxdt' = r.sys.dxdt
            /\ dydt' = r.sys.dydt
            /\ parameters' = r.sys.parameters
            /\ particles' = r.particles
            /\ colorIndex' = r.colorIndex
            /\ canvas' = draw(r.sys, r.particles)
            /\ last' = [ op |-> "updateSystem", res |-> r.res, n |-> Len(particles),
                         alert |-> Alert(r.res), pText |-> pText,
                         fieldPass |-> FieldPass(r.sys) ]
            /\ UNCHANGED << gridDensity, xMin, xMax, yMin, yMax, simulationRunning,
                            pendingFrames, feedbackPending, nextId >>

\* click on update-system
UpdateSystemClick == UpdateSystemWith(DxTexts, DyTexts, ParameterTexts)

\* drawGrid never returns: its loop adds a step of 0 to a coordinate that
\* starts within the range
DrawHangs(vxMin, vxMax, vyMin, vyMax) == vxMax = vxMin \/ vyMax = vyMin

\* change of a view-range field, the four fields then holding one of the
\* given ranges: updateViewRange(); draw()
ViewRangeWith(inputs) ==
    \E v \in inputs :
        /\ xMin' = v[1] * Scale
        /\ xMax' = v[2] * Scale
        /\ yMin' = v[3] * Scale
        /\ yMax' = v[4] * Scale
        /\ canvas' = IF DrawHangs(v[1], v[2], v[3], v[4])
                     THEN canvas
                     ELSE draw(Sys, particles)
        /\ last' = [ op |-> "updateViewRange",
                     res |-> IF DrawHangs(v[1], v[2], v[3], v[4]) THEN "hung" ELSE "ok",
                     n |-> Len(particles),
                     fieldPass |-> ~DrawHangs(v[1], v[2], v[3], v[4]) /\ FieldPass(Sys) ]
        /\ UNCHANGED << gridDensity, dxdt, dydt, parameters, particles, colorIndex,
                        simulationRunning, pendingFrames, feedbackPending, nextId >>

\* change of a view-range field
ViewRangeChange == ViewRangeWith(ViewInputs)

\* click on reset-view: resetView()
ResetViewClick ==
    /\ xMin' = -5 * Scale
    /\ xMax' = 5 * Scale
    /\ yMin' = -5 * Scale
    /\ yMax' = 5 * Scale
    /\ particles' = << >>
    /\ colorIndex' = 0
    /\ canvas' = draw(Sys, << >>)
    /\ last' = [ op |-> "resetView", res |-> "ok", n |-> Len(particles),
                 fieldPass |-> FieldPass(Sys) ]
    /\ UNCHANGED << gridDensity, dxdt, dydt, parameters, simulationRunning, pendingFrames,
                    feedbackPending, nextId >>

\* click on clear-particles: clearParticles()
ClearParticlesClick ==
    /\ particles' = << >>
    /\ colorIndex' = 0
    /\ canvas' = draw(Sys, << >>)
    /\ last' = [ op |-> "clearParticles", res |-> "ok", n |-> Len(particles),
                 fieldPass |-> FieldPass(Sys) ]
    /\ UNCHANGED << gridDensity, dxdt, dydt, parameters, xMin, xMax, yMin, yMax,
                    simulationRunning, pendingFrames, feedbackPending, nextId >>

\* click on clear-trajectories: clearTrajectories()
ClearTrajectoriesClick ==
    /\ particles' = clearTrajectories(particles)
    /\ canvas' = draw(Sys, clearTrajectories(particles))
    /\ last' = [ op |-> "clearTrajectories", res |-> "ok", n |-> Len(particles),
                 fieldPass |-> FieldPass(Sys) ]
    /\ UNCHANGED << gridDensity, dxdt, dydt, parameters, xMin, xMax, yMin, yMax, colorIndex,
                    simulationRunning, pendingFrames, feedbackPending, nextId >>

\* click on reset-all: resetAll()
ResetAllClick ==
    /\ particles' = << >>
    /\ colorIndex' = 0
    /\ canvas' = draw(Sys, << >>)
    /\ last' = [ op |-> "resetAll", res |-> "ok", n |-> Len(particles),
                 fieldPass |-> FieldPass(Sys) ]
    /\ UNCHANGED << gridDensity, dxdt, dydt, parameters, xMin, xMax, yMin, yMax,
                    simulationRunning, pendingFrames, feedbackPending, nextId >>

\* click on the canvas before a system is loaded: addParticleAtClick alerts
\* and returns
CanvasClickNoSystem ==
    /\ NoSystem(Sys)
    /\ last' = [ op |-> "addParticleAtClick", res |-> "no system", n |-> Len(particles),
                 fieldPass |-> FALSE ]
    /\ UNCHANGED << gridDensity, dxdt, dydt, parameters, xMin, xMax, yMin, yMax, particles,
                    colorIndex, simulationRunning, pendingFrames,
                    feedbackPending, canvas, nextId >>

\* the particle addParticleAtClick creates for a click at (canvasX, canvasY)
ClickedParticle(canvasX, canvasY) ==
    NewParticle(canvasToWorldX(canvasX, xMin, xMax),
                canvasToWorldY(canvasY, yMin, yMax),
                (colorIndex % NumColors) + 1,
                nextId + 1)

\* what addParticleAtClick leaves behind, r being the outcome of its
\* startSimulation() on the extended collection
ClickEffect(r) ==
    /\ colorIndex' = colorIndex + 1
    /\ nextId' = nextId + 1
    /\ particles' = r.particles
    /\ simulationRunning' = r.simulationRunning
    /\ pendingFrames' = pendingFrames + r.request
    /\ feedbackPending' = TRUE
    /\ canvas' = draw(Sys, r.particles)
    /\ last' = [ op |-> "addParticleAtClick",
                 res |-> IF simulationRunning THEN "added" ELSE "started",
                 n |-> Len(particles),
                 fieldPass |-> FieldPass(Sys) ]
    /\ UNCHANGED << gridDensity, dxdt, dydt, parameters, xMin, xMax, yMin, yMax >>

\* click on the canvas: addParticleAtClick(event)
CanvasClick ==
    /\ ~NoSystem(Sys)
    /\ nextId < MaxSpawn
    /\ simulationRunning \/ CanStep(particles)
    /\ \E canvasX \in ClickXs, canvasY \in ClickYs :
        ClickEffect(startSimulation(simulationRunning,
                        Append(particles, ClickedParticle(canvasX, canvasY)),
                        Sys))

\* what the frame callback leaves behind, r being the outcome of simulateStep()
FrameEffect(r) ==
    /\ particles' = r.particles
    /\ simulationRunning' = r.simulationRunning
    /\ pendingFrames' = (pendingFrames - 1) + r.request
    /\ canvas' = IF simulationRunning THEN draw(Sys, r.particles) ELSE canvas
    /\ last' = [ op |-> "simulateStep", res |-> "ok", n |-> Len(particles),
                 fieldPass |-> simulationRunning /\ FieldPass(Sys) ]
    /\ UNCHANGED << gridDensity, dxdt, dydt, parameters, xMin, xMax, yMin, yMax, colorIndex,
                    feedbackPending, nextId >>

\* a requestAnimationFrame callback runs: simulateStep()
AnimationFrame ==
    /\ pendingFrames > 0
    /\ CanStep(particles)
    /\ FrameEffect(simulateStep(simulationRunning, particles, Sys))

\* a showClickFeedback timer runs: draw()
FeedbackTimeout ==
    /\ feedbackPending
    /\ feedbackPending' \in BOOLEAN
    /\ canvas' = draw(Sys, particles)
    /\ last' = [ op |-> "feedbackTimeout", res |-> "ok", n |-> Len(particles),
                 fieldPass |-> FieldPass(Sys) ]
    /\ UNCHANGED << gridDensity, dxdt, dydt, parameters, xMin, xMax, yMin, yMax, particles,
                    colorIndex, simulationRunning, pendingFrames, nextId >>

Next ==
    \/ UpdateSystemClick
    \/ ViewRangeChange
    \/ ResetViewClick
    \/ ClearParticlesClick
    \/ ClearTrajectoriesClick
    \/ ResetAllClick
    \/ CanvasClickNoSystem
    \/ CanvasClick
    \/ AnimationFrame
    \/ FeedbackTimeout

Spec == Init /\ [][Next]_vars

---------------------------------------------------------------------------
(* The Particle class on its own: one particle object, given any of the     *)
(* systems as its evaluator, and the calls that write its fields            *)
(* (update, and the assignment clearTrajectories makes).                    *)

\* constructor arguments, in fixed point
SpawnXs == { -11 * Scale, (5 * Scale) \div 2, 10 * Scale, 11 * Scale }
SpawnYs == { 0, (5 * Scale) \div 2, -11 * Scale }

InitParticle ==
    /\ \E fx \in {"c", "x", "-x"}, fy \in {"c", "x"}, pText \in {"", "{\"c\": 150}"} :
        /\ dxdt = Compile(fx).expr
        /\ dydt = Compile(fy).expr
        /\ parameters = ParseParameters(pText).value
    /\ \E x \in SpawnXs, y \in SpawnYs :
        particles = << NewParticle(x, y, 1, 1) >>
    /\ xMin = -5 * Scale
    /\ xMax = 5 * Scale
    /\ yMin = -5 * Scale
    /\ yMax = 5 * Scale
    /\ colorIndex = 1
    /\ gridDensity = 20
    /\ simulationRunning = FALSE
    /\ pendingFrames = 0
    /\ feedbackPending = FALSE
    /\ canvas = [ message |-> FALSE, paths |-> << >> ]
    /\ nextId = 1
    /\ last = [op |-> "constructor", res |-> "ok", n |-> 0]

\* particle.update(this.simulationSpeed, evaluator)
CallUpdate ==
    /\ ~particles[1].active \/ Len(particles[1].trajectory) < MaxTraj
    /\ particles' = << ParticleUpdate(particles[1], simulationSpeed, Sys) >>
    /\ last' = [ op |-> "update",
                 res |-> IF particles[1].active THEN "stepped" ELSE "skipped",
                 n |-> 1,
                 calls |-> IF particles[1].active
                           THEN RK4Calls(particles[1].x, particles[1].y,
                                         simulationSpeed, Sys)
                           ELSE << >> ]
    /\ UNCHANGED << gridDensity, dxdt, dydt, parameters, xMin, xMax, yMin, yMax, colorIndex,
                    simulationRunning, pendingFrames, feedbackPending, canvas,
                    nextId >>

\* particle.trajectory = [{x: particle.x, y: particle.y}]
CallClearTrajectory ==
    /\ particles' = clearTrajectories(particles)
    /\ last' = [op |-> "clearTrajectories", res |-> "ok", n |-> 1]
    /\ UNCHANGED << gridDensity, dxdt, dydt, parameters, xMin, xMax, yMin, yMax, colorIndex,
                    simulationRunning, pendingFrames, feedbackPending, canvas,
                    nextId >>

NextParticle ==
    \/ CallUpdate
    \/ CallClearTrajectory

SpecParticle == InitParticle /\ [][NextParticle]_vars

---------------------------------------------------------------------------
(* The text fields on their own: the update-system click and the view-range *)
(* change with a wider choice of texts, on a visualizer without particles.  *)

TypedDxTexts == {"c", "x", "x +"}
TypedDyTexts == {"c", "x +"}
TypedParameterTexts == {"", "{\"c\": 150}", "null", "[150]", "150", "{bad"}

\* values of the four view-range fields: the default range, a wider one,
\* an empty x range, an inverted x range, an empty y range
TypedViewInputs ==
    { << -5, 5, -5, 5 >>, << -20, 20, -20, 20 >>, << 5, 5, -5, 5 >>,
      << 5, -5, -5, 5 >>, << -5, 5, 0, 0 >> }

UpdateSystemTyped == UpdateSystemWith(TypedDxTexts, TypedDyTexts, TypedParameterTexts)

ViewRangeTyped == ViewRangeWith(TypedViewInputs)

\* the page takes events as long as no handler hangs
Responsive == last.res # "hung"

NextInputs ==
    \/ Responsive /\ UpdateSystemTyped
    \/ Responsive /\ ViewRangeTyped
    \/ Responsive /\ ResetViewClick
    \/ Responsive /\ ResetAllClick

SpecInputs == Init /\ [][NextInputs]_vars

---------------------------------------------------------------------------
(* evaluateSystem on its own: any of the systems an update can leave, or    *)
(* none yet, and one call at a point.                                       *)

\* texts that compile, and "" for a field not compiled yet
EvaluateTexts == {"", "x", "c", "1/x", "x/x", "y - x"}
EvaluateParameterTexts == {"", "{\"c\": 150}", "[150]"}

\* the points of the calls, in fixed point
ProbeXs == { 0, Scale, -(2 * Scale) }
ProbeYs == { 0, 3 * Scale }

\* the fields of a visualizer that holds the expressions of the two texts
\* and the parameters of the third, with no particle
HoldsSystem(fx, fy, pText) ==
    /\ dxdt = IF fx = "" THEN Null ELSE Compile(fx).expr
    /\ dydt = IF fy = "" THEN Null ELSE Compile(fy).expr
    /\ parameters = ParseParameters(pText).value
    /\ particles = << >>
    /\ colorIndex = 0
    /\ simulationRunning = FALSE
    /\ pendingFrames = 0
    /\ feedbackPending = FALSE
    /\ nextId = 0
    /\ last = [op |-> "constructor", res |-> "ok", n |-> 0]

InitEvaluate ==
    /\ \E fx \in EvaluateTexts, fy \in EvaluateTexts, pText \in EvaluateParameterTexts :
        HoldsSystem(fx, fy, pText)
    /\ xMin = -5 * Scale
    /\ xMax = 5 * Scale
    /\ yMin = -5 * Scale
    /\ yMax = 5 * Scale
    /\ gridDensity = 20
    /\ canvas = [ message |-> FALSE, paths |-> << >> ]

\* this.evaluateSystem(x, y)
CallEvaluateSystem ==
    /\ \E x \in ProbeXs, y \in ProbeYs :
        last' = [ op |-> "evaluateSystem", res |-> "returned", n |-> 0,
                  x |-> x, y |-> y, value |-> evaluateSystem(Sys, x, y) ]
    /\ UNCHANGED << gridDensity, dxdt, dydt, parameters, xMin, xMax, yMin, yMax, particles,
                    colorIndex, simulationRunning, pendingFrames,
                    feedbackPending, canvas, nextId >>

NextEvaluate == CallEvaluateSystem

SpecEvaluate == InitEvaluate /\ [][NextEvaluate]_vars

---------------------------------------------------------------------------
(* The flow-field pass and the nullcline scan on their own: a system, a     *)
(* view and a grid density, and one call of drawFlowField or drawNullcline. *)

FieldDxTexts == {"x", "c", "y - x", "x/x", "1/x"}
FieldDyTexts == {"y", "x"}
FieldParameterTexts == {"", "{\"c\": 150}"}

\* values of the grid-density slider
GridDensities == {10, 20}

InitField ==
    /\ \E fx \in FieldDxTexts, fy \in FieldDyTexts, pText \in FieldParameterTexts :
        HoldsSystem(fx, fy, pText)
    /\ \E v \in ViewInputs :
        /\ xMin = v[1] * Scale
        /\ xMax = v[2] * Scale
        /\ yMin = v[3] * Scale
        /\ yMax = v[4] * Scale
    /\ gridDensity \in GridDensities
    /\ canvas = [ message |-> FALSE, paths |-> << >> ]

\* this.drawFlowField()
CallDrawFlowField ==
    /\ last.op = "constructor"
    /\ canvas' = drawFlowField(Sys, gridDensity, xMin, xMax, yMin, yMax)
    /\ last' = [op |-> "drawFlowField", res |-> "ok", n |-> 0]
    /\ UNCHANGED << gridDensity, dxdt, dydt, parameters, xMin, xMax, yMin, yMax,
                    particles, colorIndex, simulationRunning, pendingFrames,
                    feedbackPending, nextId >>

\* this.drawNullcline(isDxDt)
CallDrawNullcline ==
    /\ last.op = "constructor"
    /\ \E isDxDt \in BOOLEAN :
        /\ canvas' = drawNullcline(Sys, isDxDt, xMin, xMax, yMin, yMax)
        /\ last' = [op |-> "drawNullcline", res |-> "ok", n |-> 0, isDxDt |-> isDxDt]
    /\ UNCHANGED << gridDensity, dxdt, dydt, parameters, xMin, xMax, yMin, yMax,
                    particles, colorIndex, simulationRunning, pendingFrames,
                    feedbackPending, nextId >>

NextField ==
    \/ CallDrawFlowField
    \/ CallDrawNullcline

SpecField == InitField /\ [][NextField]_vars

---------------------------------------------------------------------------
(* One particle in the Van der Pol field of the van-der-pol preset,          *)
(* integrated step after step with the time step of the simulation.         *)

\* where the particle is constructed: the origin, and a point next to it
LongRunStarts == { << 0, 0 >>, << Scale \div 10, 0 >> }

InitLongRun ==
    /\ dxdt = Compile("y").expr
    /\ dydt = Compile("mu * (1 - x^2) * y - x").expr
    /\ parameters = ParseParameters("{\"mu\": 1}").value
    /\ \E start \in LongRunStarts :
        particles = << NewParticle(start[1], start[2], 1, 1) >>
    /\ xMin = -5 * Scale
    /\ xMax = 5 * Scale
    /\ yMin = -5 * Scale
    /\ yMax = 5 * Scale
    /\ colorIndex = 1
    /\ gridDensity = 20
    /\ simulationRunning = FALSE
    /\ pendingFrames = 0
    /\ feedbackPending = FALSE
    /\ canvas = [ message |-> FALSE, paths |-> << >> ]
    /\ nextId = 1
    /\ last = [op |-> "constructor", res |-> "ok", n |-> 0]

\* particle.update(this.simulationSpeed, evaluator), at most MaxSteps times
CallUpdateLong ==
    /\ Len(particles[1].trajectory) <= MaxSteps
    /\ particles' = << ParticleUpdate(particles[1], simulationSpeed, Sys) >>
    /\ last' = [ op |-> "update",
                 res |-> IF particles[1].active THEN "stepped" ELSE "skipped",
                 n |-> 1 ]
    /\ UNCHANGED << gridDensity, dxdt, dydt, parameters, xMin, xMax, yMin, yMax,
                    colorIndex, simulationRunning, pendingFrames, feedbackPending,
                    canvas, nextId >>

NextLongRun == CallUpdateLong

SpecLongRun == InitLongRun /\ [][NextLongRun]_vars

---------------------------------------------------------------------------
(* Properties *)

Abs(v) == IF v < 0 THEN -v ELSE v

IsPrefix(s, t) == Len(s) <= Len(t) /\ \A k \in 1..Len(s) : s[k] = t[k]

Ids(ps) == { ps[i].id : i \in 1..Len(ps) }

\* the last handler ran simulateStep with the simulation running
AfterTick ==
    \/ last.op = "simulateStep"
    \/ last.op = "addParticleAtClick" /\ last.res = "started"

\* C1: after an updateSystem that stored newly compiled parameters and both
\* newly compiled equations, the particle collection is empty.
C1_UpdateClearsParticles ==
    (last.op = "updateSystem" /\ last.res \in {"ok", "display"})
        => particles = << >>

\* C2: with a compiled System active, an updateSystem that fails leaves
\* dxdt, dydt and parameters as they were before the call.
C2_FailedUpdateKeepsSystem ==
    [][ (~NoSystem(Sys) /\ last'.op = "updateSystem" /\ last'.res # "ok")
            => << dxdt, dydt, parameters >>' = << dxdt, dydt, parameters >> ]_vars

\* C3: an updateSystem that fails leaves the particle collection exactly as
\* it was: same particles, same order, same fields.
C3_FailedUpdateKeepsParticles ==
    [][ (last'.op = "updateSystem" /\ last'.res # "ok")
            => particles' = particles ]_vars

C3_Witness ==
    /\ last.op = "updateSystem"
    /\ last.res # "ok"
    /\ last.n = 2
    /\ Len(particles) = 2

\* C4: a tick steps every particle of the collection exactly once: a
\* particle that is kept has its old trajectory plus exactly one point, a
\* particle that is dropped is one that a single step takes out of bounds,
\* nothing else is added, and the order is kept.  A click that starts the
\* simulation ticks once, the new particle included; a click while the
\* simulation runs steps nothing.
C4_TickStepsEachOnce ==
    [][ /\ (last'.op = "simulateStep" /\ simulationRunning) =>
            /\ Ids(particles') \subseteq Ids(particles)
            /\ \A i \in 1..Len(particles) :
                /\ particles[i].id \in Ids(particles') =>
                     \E j \in 1..Len(particles') :
                        /\ particles'[j].id = particles[i].id
                        /\ Len(particles'[j].trajectory)
                              = Len(particles[i].trajectory) + 1
                        /\ IsPrefix(particles[i].trajectory, particles'[j].trajectory)
                /\ particles[i].id \notin Ids(particles') =>
                     LET q == RK4(particles[i].x, particles[i].y, simulationSpeed, Sys)
                     IN  Abs(q.x) > ParticleBound * Scale
                            \/ Abs(q.y) > ParticleBound * Scale
            /\ \A j, k \in 1..Len(particles') :
                 j < k => particles'[j].id < particles'[k].id
        /\ (last'.op = "addParticleAtClick" /\ last'.res = "started") =>
            \A j \in 1..Len(particles') :
                particles'[j].id \notin Ids(particles)
                    => Len(particles'[j].trajectory) = 2
        /\ (last'.op = "addParticleAtClick" /\ last'.res = "added") =>
            /\ \A i \in 1..Len(particles) : particles'[i] = particles[i]
            /\ Len(particles') = Len(particles) + 1
            /\ Len(particles'[Len(particles')].trajectory) = 1
      ]_vars

C4_Witness ==
    /\ last.op = "simulateStep"
    /\ last.n = 2
    /\ Len(particles) = 2
    /\ Len(particles[1].trajectory) = 3
    /\ Len(particles[2].trajectory) = 2

\* C5: after a tick a frame callback is pending exactly when an active
\* particle is left in the collection, and when the collection is empty
\* the loop has stopped: the flag is false and no callback is pending.
C5_TickReschedulesIffActive ==
    AfterTick =>
        /\ (pendingFrames > 0) <=> (\E i \in 1..Len(particles) : particles[i].active)
        /\ particles = << >> => (~simulationRunning /\ pendingFrames = 0)
        /\ pendingFrames <= 1

C5_Witness ==
    /\ last.op = "simulateStep"
    /\ last.n > 0
    /\ particles = << >>
    /\ ~simulationRunning
    /\ pendingFrames = 0

\* C6: an inactive particle stays inactive under every call, and update
\* leaves an inactive particle's position and trajectory as they are.
C6_InactiveIsTerminal ==
    [][ ~particles[1].active =>
            /\ ~particles'[1].active
            /\ last'.op = "update" =>
                 /\ particles'[1].x = particles[1].x
                 /\ particles'[1].y = particles[1].y
                 /\ particles'[1].trajectory = particles[1].trajectory ]_vars

C6_Witness ==
    /\ last.op = "update"
    /\ last.res = "skipped"
    /\ ~particles[1].active

\* C7: right after a step of an active particle, the particle is inactive
\* exactly when |x| > 10 or |y| > 10 at its new position.
C7_InactiveIffBeyondBound ==
    (last.op = "update" /\ last.res = "stepped") =>
        ( ~particles[1].active <=>
            ( Abs(particles[1].x) > ParticleBound * Scale
                \/ Abs(particles[1].y) > ParticleBound * Scale ) )

C7_Witness ==
    /\ last.op = "update"
    /\ last.res = "stepped"
    /\ particles[1].x = ParticleBound * Scale
    /\ Abs(particles[1].y) <= ParticleBound * Scale
    /\ particles[1].active

\* C8 as claimed: under every operation, the trajectory a particle had
\* before is a prefix of the trajectory it has after.
C8_TrajectoryAppendOnly ==
    [][ \A i \in 1..Len(particles), j \in 1..Len(particles') :
            particles'[j].id = particles[i].id
                => IsPrefix(particles[i].trajectory, particles'[j].trajectory) ]_vars

\* C8 as amended: a new particle's trajectory starts with its spawn point
\* alone (plus one step when the click starts the simulation); every
\* operation but clearTrajectories keeps the old trajectory as a prefix of
\* the new one; clearTrajectories replaces it by the current position.
C8_AppendOnlyExceptClear ==
    [][ /\ \A i \in 1..Len(particles), j \in 1..Len(particles') :
            particles'[j].id = particles[i].id =>
                IF last'.op = "clearTrajectories"
                THEN particles'[j].trajectory
                        = << [x |-> particles[i].x, y |-> particles[i].y] >>
                ELSE IsPrefix(particles[i].trajectory, particles'[j].trajectory)
        /\ \A j \in 1..Len(particles') :
            particles'[j].id \notin Ids(particles) =>
                /\ \E cx \in ClickXs, cy \in ClickYs :
                     particles'[j].trajectory[1]
                        = [ x |-> canvasToWorldX(cx, xMin, xMax),
                            y |-> canvasToWorldY(cy, yMin, yMax) ]
                /\ Len(particles'[j].trajectory)
                     = IF last'.res = "started" THEN 2 ELSE 1
      ]_vars

C8_Witness ==
    /\ last.op = "simulateStep"
    /\ \E i \in 1..Len(particles) : Len(particles[i].trajectory) = 3

\* C9: the trajectory of a particle that a tick deactivates is painted by
\* the redraw of that tick.
C9_InactiveStillDrawn ==
    [][ (last'.op = "simulateStep" /\ simulationRunning) =>
            \A i \in 1..Len(particles) :
                LET q == ParticleUpdate(particles[i], simulationSpeed, Sys)
                IN  ~q.active =>
                        \E k \in 1..Len(canvas'.paths) :
                            canvas'.paths[k].path = q.trajectory ]_vars

\* C10: a particle constructed outside the bound in some coordinate, whose
\* first step does not bring that coordinate back toward the box, is
\* inactive after that step.
C10_SpawnedOutsideLeavesAtOnce ==
    ( /\ last.op = "update"
      /\ last.res = "stepped"
      /\ Len(particles[1].trajectory) = 2
      /\ LET a == particles[1].trajectory[1]
             b == particles[1].trajectory[2]
         IN  \/ (a.x > ParticleBound * Scale /\ b.x >= a.x)
             \/ (a.x < -(ParticleBound * Scale) /\ b.x <= a.x)
             \/ (a.y > ParticleBound * Scale /\ b.y >= a.y)
             \/ (a.y < -(ParticleBound * Scale) /\ b.y <= a.y) )
        => ~particles[1].active

C10_Witness ==
    /\ last.op = "update"
    /\ last.res = "stepped"
    /\ Len(particles[1].trajectory) = 2
    /\ particles[1].trajectory[1].x > ParticleBound * Scale
    /\ particles[1].trajectory[2].x > particles[1].trajectory[1].x
    /\ Abs(particles[1].trajectory[2].y) <= ParticleBound * Scale
    /\ ~particles[1].active

\* what each component does at the point of the last evaluateSystem call
ComponentAtCall(expr) ==
    Evaluate(expr, Scope(last.x, last.y, parameters))

\* C11: evaluateSystem returns {dx: 0, dy: 0} when no System is compiled
\* yet and when the evaluation of either component throws, also when the
\* other component evaluates to a number that is not zero.
C11_EvaluateFallsBackOnZero ==
    last.op = "evaluateSystem" =>
        /\ last.res = "returned"
        /\ (dxdt = Null \/ dydt = Null) => last.value = ZeroVector
        /\ ( /\ dxdt # Null
             /\ dydt # Null
             /\ (~ComponentAtCall(dxdt).ok \/ ~ComponentAtCall(dydt).ok) )
                => (last.value.dx = 0 /\ last.value.dy = 0)

C11_Witness ==
    /\ last.op = "evaluateSystem"
    /\ dxdt # Null
    /\ dydt # Null
    /\ ComponentAtCall(dxdt).ok
    /\ ComponentAtCall(dxdt).value # 0
    /\ ~ComponentAtCall(dydt).ok
    /\ last.value = ZeroVector

\* C12: with a System compiled, both components of what evaluateSystem
\* returns are finite numbers.
C12_EvaluateReturnsFinite ==
    (last.op = "evaluateSystem" /\ dxdt # Null /\ dydt # Null) =>
        /\ last.value.dxIs = "number"
        /\ last.value.dyIs = "number"

\* JSON that is a flat mapping from names to numbers
IsFlatMapping(value) == value.kind = "object"

\* C13: an update whose parameter text is JSON but not a flat mapping from
\* names to numbers fails, is reported, and leaves the System as it was.
C13_NonFlatParametersRejected ==
    [][ ( /\ last'.op = "updateSystem"
          /\ ParseParameters(last'.pText).ok
          /\ ~IsFlatMapping(ParseParameters(last'.pText).value) )
            => ( /\ last'.res # "ok"
                 /\ last'.alert # "none"
                 /\ << dxdt, dydt, parameters >>' = << dxdt, dydt, parameters >> ) ]_vars

\* C14: a failed update whose equation did not compile is not reported as a
\* parameter error, and one whose parameter text did not parse is not
\* reported as an equation error.
C14_AlertTellsErrorsApart ==
    last.op = "updateSystem" =>
        /\ last.res \in {"dxdt", "dydt"} => last.alert # "Error parsing parameters JSON"
        /\ last.res = "parameters" => last.alert # "Error parsing equations"

\* C18: the view range is never empty or inverted.
C18_ViewportNeverDegenerate ==
    xMax > xMin /\ yMax > yMin

\* C20: after Reset All no particle is left and the view is the default
\* range of the constructor.
C20_ResetAllResetsView ==
    last.op = "resetAll" =>
        /\ particles = << >>
        /\ << xMin, xMax, yMin, yMax >>
              = << -5 * Scale, 5 * Scale, -5 * Scale, 5 * Scale >>

\* the magnitude of a returned vector is above zero (the magnitude of a
\* vector with a NaN component is NaN, which is not)
NonzeroMagnitude(v) ==
    /\ v.dxIs # "NaN"
    /\ v.dyIs # "NaN"
    /\ \/ v.dxIs # "number"
       \/ v.dyIs # "number"
       \/ v.dx # 0
       \/ v.dy # 0

\* C15: a flow-field pass with gridDensity = N makes exactly (N+1)^2
\* evaluations, one at each grid point (i, j) with i, j in 0..N, from the
\* corner (xMin, yMin) to the opposite corner of the view (up to the
\* rounding of the step), and draws an arrow at exactly the grid points
\* where the magnitude of the evaluated vector is above zero.
C15_FieldPassSamplesGrid ==
    last.op = "drawFlowField" =>
        LET N == gridDensity
            evaluated == canvas.evaluated
            arrows == canvas.arrows
        IN  /\ Len(evaluated) = (N + 1) * (N + 1)
            /\ { << evaluated[k].i, evaluated[k].j >> : k \in 1..Len(evaluated) }
                  = (0..N) \X (0..N)
            /\ \A k \in 1..Len(evaluated) :
                /\ evaluated[k].i = 0 => evaluated[k].x = xMin
                /\ evaluated[k].j = 0 => evaluated[k].y = yMin
                /\ evaluated[k].i = N => Abs(evaluated[k].x - xMax) <= N
                /\ evaluated[k].j = N => Abs(evaluated[k].y - yMax) <= N
                /\ evaluated[k].v = evaluateSystem(Sys, evaluated[k].x, evaluated[k].y)
                /\ NonzeroMagnitude(evaluated[k].v)
                      <=> \E a \in 1..Len(arrows) :
                            << arrows[a].i, arrows[a].j >>
                                = << evaluated[k].i, evaluated[k].j >>
            /\ \A a, b \in 1..Len(arrows) :
                << arrows[a].i, arrows[a].j >> = << arrows[b].i, arrows[b].j >>
                    => a = b
            /\ \A a \in 1..Len(arrows) :
                \E k \in 1..Len(evaluated) : evaluated[k] = arrows[a]

C15_Witness ==
    /\ last.op = "drawFlowField"
    /\ gridDensity = 10
    /\ Len(canvas.evaluated) = 121
    /\ Len(canvas.arrows) = 120
    /\ \E k \in 1..Len(canvas.evaluated) :
        /\ canvas.evaluated[k].v = ZeroVector
        /\ canvas.evaluated[k].x = 0
        /\ canvas.evaluated[k].y = 0

\* the component a nullcline scan looks at is within the threshold at (x, y)
WithinThreshold(isDxDt, x, y) ==
    LET v == evaluateSystem(Sys, x, y)
    IN  IF isDxDt
        THEN v.dxIs = "number" /\ Abs(v.dx) < NullclineThreshold
        ELSE v.dyIs = "number" /\ Abs(v.dy) < NullclineThreshold

\* the y values a column is scanned at, in order: ScanY(0), ScanY(1), ...
ScanY(k) == yMin + k * FDiv(yMax - yMin, NullclineSteps)

\* C16: every column of a nullcline scan emits at most one point; a column
\* that emits one emits the first y of the scan, from yMin upward, at which
\* the component is within the threshold, and evaluates no y after it; a
\* column that emits none was scanned up to yMax without a hit.
C16_NullclineFirstHitPerColumn ==
    last.op = "drawNullcline" =>
        LET columns == canvas.columns
            path == canvas.path
        IN  /\ Len(columns) = NullclineResolution + 1
            /\ \A c \in 1..Len(columns) :
                /\ columns[c].i = c - 1
                /\ columns[c].hit =>
                    /\ columns[c].evaluated >= 1
                    /\ columns[c].y = ScanY(columns[c].evaluated - 1)
                    /\ WithinThreshold(last.isDxDt, columns[c].x, columns[c].y)
                    /\ \A k \in 0..(columns[c].evaluated - 2) :
                        ~WithinThreshold(last.isDxDt, columns[c].x, ScanY(k))
                    /\ \E p \in 1..Len(path) :
                        /\ path[p].i = columns[c].i
                        /\ path[p].x = columns[c].x
                        /\ path[p].y = columns[c].y
                /\ ~columns[c].hit =>
                    /\ ScanY(columns[c].evaluated) > yMax
                    /\ \A k \in 0..(columns[c].evaluated - 1) :
                        /\ ScanY(k) <= yMax
                        /\ ~WithinThreshold(last.isDxDt, columns[c].x, ScanY(k))
                    /\ \A p \in 1..Len(path) : path[p].i # columns[c].i
            /\ \A p, q \in 1..Len(path) : path[p].i = path[q].i => p = q

C16_Witness ==
    /\ last.op = "drawNullcline"
    /\ \E c \in 1..Len(canvas.columns) :
        /\ canvas.columns[c].hit
        /\ canvas.columns[c].evaluated > 1
        /\ canvas.columns[c].evaluated < NullclineSteps
    /\ \E c \in 1..Len(canvas.columns) : ~canvas.columns[c].hit

\* C17: a column without a hit adds no point to the path, and two points
\* of the path with such columns between them are not joined: the later
\* one starts a new run.
C17_NullclineGapsNotJoined ==
    last.op = "drawNullcline" =>
        /\ \A c \in 1..Len(canvas.columns) :
            ~canvas.columns[c].hit =>
                \A p \in 1..Len(canvas.path) : canvas.path[p].i # canvas.columns[c].i
        /\ \A p \in 2..Len(canvas.path) :
            canvas.path[p].i > canvas.path[p - 1].i + 1
                => canvas.path[p].call = "moveTo"

\* C19: a particle constructed at (0, 0) in the Van der Pol field with
\* mu = 1 and stepped with dt = 0.05 is active after every one of its first
\* MaxSteps steps, and neither coordinate has gone beyond the bound.
C19_VanDerPolStaysActive ==
    particles[1].trajectory[1] = [x |-> 0, y |-> 0] =>
        /\ particles[1].active
        /\ \A k \in 1..Len(particles[1].trajectory) :
            /\ Abs(particles[1].trajectory[k].x) <= ParticleBound * Scale
            /\ Abs(particles[1].trajectory[k].y) <= ParticleBound * Scale

C19_Witness ==
    /\ particles[1].trajectory[1] = [x |-> 0, y |-> 0]
    /\ Len(particles[1].trajectory) = MaxSteps + 1
    /\ last.op = "update"
    /\ last.res = "stepped"
    /\ particles[1].active

\* C21: Clear Trajectories keeps the particles, in their order, with their
\* positions, active flags, colours and ids, gives each the trajectory made
\* of its current position alone, and leaves the System, the view and the
\* simulation flag as they were.
C21_ClearTrajectoriesFrame ==
    [][ last'.op = "clearTrajectories" =>
            /\ Len(particles') = Len(particles)
            /\ \A i \in 1..Len(particles) :
                /\ particles'[i].id = particles[i].id
                /\ particles'[i].x = particles[i].x
                /\ particles'[i].y = particles[i].y
                /\ particles'[i].active = particles[i].active
                /\ particles'[i].color = particles[i].color
                /\ particles'[i].trajectory
                      = << [x |-> particles[i].x, y |-> particles[i].y] >>
            /\ << dxdt, dydt, parameters >>' = << dxdt, dydt, parameters >>
            /\ << xMin, xMax, yMin, yMax >>' = << xMin, xMax, yMin, yMax >>
            /\ simulationRunning' = simulationRunning
            /\ pendingFrames' = pendingFrames ]_vars

\* a click of Clear Trajectories on two particles, one of which has moved
\* away from every point a click can create it at
C21_Witness ==
    /\ last.op = "clearTrajectories"
    /\ Len(particles) = 2
    /\ simulationRunning
    /\ \E i \in 1..Len(particles) :
        /\ Len(particles[i].trajectory) = 1
        /\ \A cx \in ClickXs : particles[i].x # canvasToWorldX(cx, xMin, xMax)

\* the handlers of the animation tick and of the particle events
ParticleEvents ==
    { "simulateStep", "addParticleAtClick", "clearParticles",
      "clearTrajectories", "feedbackTimeout" }

\* C22: an animation tick or a particle event that leaves the System, the
\* view and the grid density as they were runs no new sampling pass of the
\* flow field and the nullclines.
C22_NoFieldPassWithoutChange ==
    [][ ( /\ last'.op \in ParticleEvents
          /\ << dxdt, dydt, parameters >>' = << dxdt, dydt, parameters >>
          /\ << xMin, xMax, yMin, yMax >>' = << xMin, xMax, yMin, yMax >>
          /\ gridDensity' = gridDensity )
        => ~last'.fieldPass ]_vars

\* the last point of a trajectory
LastPoint(trajectory) == trajectory[Len(trajectory)]

\* C23: a step of an active particle appends the new position to the
\* trajectory, also when the step deactivates the particle: the last point
\* of the trajectory of a particle that just became inactive is its exit
\* position, beyond the bound.
C23_ExitPointRecorded ==
    [][ (last'.op = "update" /\ particles[1].active) =>
            /\ Len(particles'[1].trajectory) = Len(particles[1].trajectory) + 1
            /\ LastPoint(particles'[1].trajectory)
                  = [x |-> particles'[1].x, y |-> particles'[1].y]
            /\ ~particles'[1].active =>
                  \/ Abs(LastPoint(particles'[1].trajectory).x) > ParticleBound * Scale
                  \/ Abs(LastPoint(particles'[1].trajectory).y) > ParticleBound * Scale
       ]_vars

\* a particle that started within the bound has just left it on its second
\* step, and the exit position is on its trajectory
C23_Witness ==
    /\ last.op = "update"
    /\ last.res = "stepped"
    /\ ~particles[1].active
    /\ Len(particles[1].trajectory) = 3
    /\ Abs(particles[1].trajectory[2].x) <= ParticleBound * Scale
    /\ Abs(particles[1].trajectory[2].y) <= ParticleBound * Scale
    /\ LastPoint(particles[1].trajectory).x > ParticleBound * Scale

\* f(pt) for the evaluator f of the loaded System
F(pt) == evaluateSystem(Sys, pt.x, pt.y)

\* pt + k * dt / den, per component
Plus(pt, kdx, kdy, den) ==
    [ x |-> pt.x + FDiv(kdx * simulationSpeed, den * Scale),
      y |-> pt.y + FDiv(kdy * simulationSpeed, den * Scale) ]

\* (k1 + 2 * k2 + 2 * k3 + k4) / 6 for the values of f at the four points
Mean(c, component) ==
    FDiv(F(c[1])[component] + 2 * F(c[2])[component]
            + 2 * F(c[3])[component] + F(c[4])[component], 6)

\* C24: update(dt, f) on an active particle at p calls f four times, at p,
\* at p + k1*dt/2, at p + k2*dt/2 and at p + k3*dt in this order, each k
\* being the value of the call before, and moves the particle to
\* p + dt*(k1 + 2*k2 + 2*k3 + k4)/6.
C24_RungeKuttaStep ==
    [][ (last'.op = "update" /\ particles[1].active) =>
            /\ Len(last'.calls) = 4
            /\ last'.calls[1] = [x |-> particles[1].x, y |-> particles[1].y]
            /\ last'.calls[2] = Plus(last'.calls[1], F(last'.calls[1]).dx,
                                     F(last'.calls[1]).dy, 2)
            /\ last'.calls[3] = Plus(last'.calls[1], F(last'.calls[2]).dx,
                                     F(last'.calls[2]).dy, 2)
            /\ last'.calls[4] = Plus(last'.calls[1], F(last'.calls[3]).dx,
                                     F(last'.calls[3]).dy, 1)
            /\ [x |-> particles'[1].x, y |-> particles'[1].y]
                  = Plus(last'.calls[1], Mean(last'.calls, "dx"),
                         Mean(last'.calls, "dy"), 1) ]_vars

\* a step in a field that varies along the step: the four points of
\* evaluation differ, and the new position is not that of an Euler step
C24_Witness ==
    /\ last.op = "update"
    /\ last.res = "stepped"
    /\ Len(last.calls) = 4
    /\ last.calls[1].x # last.calls[2].x
    /\ last.calls[2].x # last.calls[3].x
    /\ last.calls[3].x # last.calls[4].x
    /\ particles[1].x # Plus(last.calls[1], F(last.calls[1]).dx,
                             F(last.calls[1]).dy, 1).x

\* C25: the redraw of a handler returns, for every view range the
\* view-range fields and Reset View can set.
C25_RedrawRunsToCompletion ==
    last.op \in {"updateViewRange", "resetView", "resetAll", "updateSystem"}
        => last.res # "hung"

\* C26: no trajectory holds points integrated under a System other than
\* the loaded one: a step that changes dxdt, dydt or parameters keeps no
\* particle whose trajectory has integrated points.
C26_TrajectoriesOfLoadedSystem ==
    [][ << dxdt, dydt, parameters >>' # << dxdt, dydt, parameters >> =>
            \A i \in 1..Len(particles), j \in 1..Len(particles') :
                particles'[j].id = particles[i].id
                    => Len(particles[i].trajectory) < 2 ]_vars

\* C27: between two handlers every particle of the collection is active.
C27_LiveParticlesActive ==
    \A i \in 1..Len(particles) : particles[i].active

\* a tick on two particles has removed the one that left the bound and
\* kept the other
C27_Witness ==
    /\ last.op = "simulateStep"
    /\ last.n = 2
    /\ Len(particles) = 1
    /\ particles[1].active
    /\ Len(particles[1].trajectory) >= 2

\* C28: between two handlers at most one frame callback is pending, and
\* simulationRunning is true exactly when one is.
C28_OneLoopAtMost ==
    /\ pendingFrames <= 1
    /\ simulationRunning <=> pendingFrames = 1

\* a click on the canvas while the loop runs has added a particle and has
\* not started a second loop
C28_Witness ==
    /\ last.op = "addParticleAtClick"
    /\ last.res = "added"
    /\ Len(particles) = 2
    /\ simulationRunning
    /\ pendingFrames = 1

\* C29: between two handlers, a collection that holds a particle has the
\* loop running and a frame callback pending.
C29_LiveParticlesAreIntegrated ==
    Len(particles) > 0 => (simulationRunning /\ pendingFrames > 0)

\* a failed update of the system has kept the particles, and the loop that
\* integrates them
C29_Witness ==
    /\ last.op = "updateSystem"
    /\ last.res # "ok"
    /\ Len(particles) > 0
    /\ simulationRunning
    /\ pendingFrames = 1

\* C30: after the constructor and after every update and clearTrajectories,
\* the trajectory of the particle is not empty and ends at its position.
C30_TrajectoryEndsAtPosition ==
    /\ Len(particles[1].trajectory) > 0
    /\ LastPoint(particles[1].trajectory)
          = [x |-> particles[1].x, y |-> particles[1].y]

\* two steps that moved the particle, after which it is still active
C30_Witness ==
    /\ last.op = "update"
    /\ last.res = "stepped"
    /\ particles[1].active
    /\ Len(particles[1].trajectory) = 3
    /\ particles[1].trajectory[3] # particles[1].trajectory[2]
    /\ particles[1].trajectory[3] = [x |-> particles[1].x, y |-> particles[1].y]

====
